---- MODULE Spec2Model ----
(***************************************************************************)
(* Resumable batch geocoding: the service of geocoding-service-advanced.js *)
(* (address cache, retrying lookup, rate governor, checkpointed batches,   *)
(* report) driven by the control routes of server-advanced.js.             *)
(*                                                                         *)
(* Strings are sequences of one-character strings.  null, undefined and 0  *)
(* are all falsy in the source; a missing coordinate is modelled as 0 and  *)
(* the provider never answers a coordinate 0.                              *)
(***************************************************************************)
EXTENDS Integers, Sequences, FiniteSets, TLC

(***************************************************************************)
(* Bounds of the model.                                                    *)
(***************************************************************************)
MaxRuns == 2        \* start requests accepted
MaxEvents == 1      \* configuration changes, cache clearings, signals, kills
MaxFaulty == 1      \* addresses the provider does not simply resolve
MaxKeyLen == 4      \* length of the addresses getCacheKey is driven with

(***************************************************************************)
(* Program constants.                                                      *)
(***************************************************************************)
DefaultRateLimitDelay == 1000
DefaultBatchSize == 100
DefaultMaxRetries == 3
CfgMinDelay == 500
CfgMinBatch == 10
CfgMaxBatch == 1000
CfgMinRetries == 1
CfgMaxRetries == 10
SaveEvery == 10
AdjustEvery == 50
GovStepUp == 200
GovStepDown == 100
GovMaxDelay == 3000
GovMinDelay == 800
RetryDelay == 5000      \* retryDelay
PauseDelay == 2000      \* pause between batches
RateCeiling == 1000     \* the provider's limit: one request per 1000 ms

Min(a, b) == IF a < b THEN a ELSE b
Max(a, b) == IF a > b THEN a ELSE b

(***************************************************************************)
(* getCacheKey: endereco.toLowerCase().trim().replace(/\s+/g, ' ')         *)
(***************************************************************************)
UpperChars == <<"A", "C", "M", "P", "R", "S">>
LowerChars == <<"a", "c", "m", "p", "r", "s">>

toLowerChar(c) ==
    IF \E i \in 1..Len(UpperChars) : UpperChars[i] = c
    THEN LowerChars[CHOOSE i \in 1..Len(UpperChars) : UpperChars[i] = c]
    ELSE c

toLowerCase(s) == [i \in 1..Len(s) |-> toLowerChar(s[i])]

isSpace(c) == c \in {" ", "\t"}

RECURSIVE trimStart(_)
trimStart(s) ==
    IF s # <<>> /\ isSpace(Head(s)) THEN trimStart(Tail(s)) ELSE s

RECURSIVE trimEnd(_)
trimEnd(s) ==
    IF s # <<>> /\ isSpace(s[Len(s)])
    THEN trimEnd(SubSeq(s, 1, Len(s) - 1))
    ELSE s

trim(s) == trimEnd(trimStart(s))

RECURSIVE collapseSpaces(_)
collapseSpaces(s) ==
    IF s = <<>> THEN <<>>
    ELSE IF isSpace(Head(s))
         THEN <<" ">> \o collapseSpaces(trimStart(s))
         ELSE <<Head(s)>> \o collapseSpaces(Tail(s))

\* variant of getCacheKey: the ends are not trimmed
getCacheKeyUntrimmed(endereco) == collapseSpaces(toLowerCase(endereco))

getCacheKey(endereco) == collapseSpaces(trim(toLowerCase(endereco)))

(***************************************************************************)
(* Record sets the runs are driven with.                                   *)
(***************************************************************************)
MainStCity == <<"M", "a", "i", "n", " ", "S", "t", ",", " ", "C", "i", "t", "y">>
mainStCity == <<"m", "a", "i", "n", " ", " ", " ", "s", "t", ",", " ", "c", "i", "t", "y">>
AvPaulista == <<"A", "v", " ", "P">>
RuaOscar == <<"R", "u", "a">>
Copacabana == <<"C", "o", "p", "a">>

\* the endereco of a record that has none (undefined)
SemEndereco == <<"undefined">>

Incompleto == <<AvPaulista, SemEndereco, RuaOscar>>

Scenario == <<AvPaulista, MainStCity, RuaOscar, mainStCity, Copacabana>>
Bulk == [i \in 1..SaveEvery |-> IF i % 2 = 1 THEN RuaOscar ELSE <<" ", "r", "u", "a">>]

Fixtures == {Scenario, Bulk, Incompleto}

Enderecos == UNION {{f[i] : i \in 1..Len(f)} : f \in Fixtures}
Keys == {getCacheKey(a) : a \in Enderecos}

\* getCacheKey (70-72) of each address of the record sets, computed once
CacheKeys == [a \in Enderecos |-> getCacheKey(a)]

\* getCacheKey as the pipeline calls it (78)
CacheKey(endereco) ==
    IF endereco \in DOMAIN CacheKeys THEN CacheKeys[endereco]
    ELSE getCacheKey(endereco)

\* a record of clientes.json before any geocoding (teste.js 111-118)
NovoCliente(i, endereco) ==
    [id |-> i, endereco |-> endereco, latitude |-> 0, longitude |-> 0,
     geocoded |-> FALSE, cached |-> FALSE, data_geocodificacao |-> FALSE]

MakeClientes(f) == [i \in 1..Len(f) |-> NovoCliente(i, f[i])]

(***************************************************************************)
(* Lookup provider (external collaborator).  Each address has a fixed      *)
(* behaviour, decided when the address is first requested:                 *)
(*   found - one candidate; empty - no candidate; down - every request     *)
(*   fails (timeout/transport); late - the first attempt of a lookup       *)
(*   fails, later attempts answer one candidate.                           *)
(***************************************************************************)
ProviderModes == {"found", "empty", "down", "late"}

AllEnderecos ==
    <<AvPaulista, MainStCity, RuaOscar, mainStCity, Copacabana, <<" ", "r", "u", "a">>>>

EnderecoIndex(a) == CHOOSE i \in 1..Len(AllEnderecos) : AllEnderecos[i] = a

\* the object buscarCoordenadas builds from the first candidate
Resultado(a) ==
    [latitude |-> 0 - EnderecoIndex(a), longitude |-> 0 - 40 - EnderecoIndex(a),
     cached |-> FALSE]

\* what one request answers: "found", "empty" or "error"
Resposta(mode, tent) ==
    CASE mode = "found" -> "found"
      [] mode = "empty" -> "empty"
      [] mode = "down" -> "error"
      [] mode = "late" -> IF tent = 1 THEN "error" ELSE "found"

(***************************************************************************)
(* Deployment options handed to the constructor (geocodingConfig).         *)
(***************************************************************************)
OptBatchSizes == {2, DefaultBatchSize}

\* the small record set under every option, the large one under the defaults
Deployments ==
    {[fixture |-> Scenario,
      options |-> [rateLimitDelay |-> DefaultRateLimitDelay, batchSize |-> b,
                   maxRetries |-> 2, cacheEnabled |-> c]] :
        b \in OptBatchSizes, c \in BOOLEAN}
    \cup
    {[fixture |-> Incompleto,
      options |-> [rateLimitDelay |-> DefaultRateLimitDelay, batchSize |-> 2,
                   maxRetries |-> 2, cacheEnabled |-> TRUE]]}
    \cup
    {[fixture |-> Bulk,
      options |-> [rateLimitDelay |-> DefaultRateLimitDelay,
                   batchSize |-> DefaultBatchSize,
                   maxRetries |-> DefaultMaxRetries, cacheEnabled |-> TRUE]]}

\* the cache file a deployment starts with: none, or for the deployment
\* that has the cache disabled and one batch, also the file an earlier
\* deployment with the cache enabled wrote (saveCache 55-65)
CacheFiles(d) ==
    IF ~d.options.cacheEnabled /\ d.options.batchSize = DefaultBatchSize
    THEN {<<>>, <<(getCacheKey(MainStCity) :> Resultado(MainStCity))>>}
    ELSE {<<>>}

OrDefault(v, d) == IF v = 0 THEN d ELSE v

VARIABLES
    \* durable storage
    storeFile,          \* clientes.json
    cacheFile,          \* geocoding-cache.json: <<>> (absent) or <<map>>
    progressFile,       \* geocoding-progress.json: <<>> (absent) or <<state>>
    \* environment
    provider,
    options,
    \* the process
    proc,               \* "up" | "down"
    geocodingConfig,
    rateLimitDelay, batchSize, maxRetries,
    memoryCache,
    stats,
    processamentoAtivo,
    progressoAtual,
    \* the active invocation of processarClientesOtimizado
    pc,
    clientes,
    processedIds,
    clientesPendentes,  \* indexes into clientes (the records are shared)
    totalBatches,
    batchIndex,
    lote,
    pos,
    tentativa,
    args,               \* the route that started the run and its resume flag
    \* asynchronous callbacks in progress
    saveQueue,          \* onProgress callbacks awaiting their autosave
    sigint,             \* <<>> or <<records read by the SIGINT handler>>
    \* history
    hist

disk == <<storeFile, cacheFile, progressFile>>
config == <<geocodingConfig, rateLimitDelay, batchSize, maxRetries>>
server == <<processamentoAtivo, progressoAtual>>
run == <<pc, clientes, processedIds, clientesPendentes, totalBatches,
         batchIndex, lote, pos, tentativa, args>>
vars == <<disk, provider, options, proc, config, memoryCache, stats, server,
          run, saveQueue, sigint, hist>>

Faulty == Cardinality({a \in Enderecos : provider[a] \notin {"unknown", "found"}})

EmptyCache == [k \in {} |-> Resultado(AvPaulista)]

EmptyStats ==
    [total |-> 0, processed |-> 0, success |-> 0, errors |-> 0, cached |-> 0,
     startTime |-> FALSE, endTime |-> FALSE]

NoProgress == [processados |-> 0, total |-> 0, status |-> "null"]

NoArgs == [rota |-> "none", resumir |-> FALSE]

ZeroKeys == [k \in Keys |-> 0]

\* history of one call of buscarCoordenadas from the pipeline
NoLookup ==
    [outcome |-> "none", reqs |-> 0, max0 |-> 0, stable |-> TRUE,
     errors |-> 0, nulo |-> FALSE]

\* history of one invocation of processarClientesOtimizado
RunHist ==
    [lookupCalls |-> ZeroKeys, lookupFails |-> ZeroKeys, requests |-> 0,
     ckptIds |-> {}, pendingAtStart |-> {}, submitted |-> <<>>,
     saved |-> <<>>, rejected |-> FALSE, lk |-> NoLookup,
     gap |-> 0, waited |-> RateCeiling, resized |-> FALSE]

HistInit ==
    [runs |-> 0, events |-> 0, activeRuns |-> 0, exit |-> "none",
     run |-> RunHist, relatorio |-> <<>>]

\* constructor (6-30) and the module state of the server (16-28)
Constructed ==
    /\ geocodingConfig = [rateLimitDelay |-> options.rateLimitDelay,
                          batchSize |-> options.batchSize,
                          maxRetries |-> options.maxRetries]
    /\ rateLimitDelay = OrDefault(options.rateLimitDelay, DefaultRateLimitDelay)
    /\ batchSize = OrDefault(options.batchSize, DefaultBatchSize)
    /\ maxRetries = OrDefault(options.maxRetries, DefaultMaxRetries)
    /\ memoryCache = EmptyCache
    /\ stats = EmptyStats
    /\ processamentoAtivo = FALSE
    /\ progressoAtual = NoProgress
    /\ pc = "idle"
    /\ clientes = <<>>
    /\ processedIds = {}
    /\ clientesPendentes = <<>>
    /\ totalBatches = 0
    /\ batchIndex = 0
    /\ lote = <<>>
    /\ pos = 0
    /\ tentativa = 0
    /\ args = NoArgs
    /\ saveQueue = <<>>
    /\ sigint = <<>>

\* the same, as the step that starts the process
Construct ==
    /\ geocodingConfig' = [rateLimitDelay |-> options.rateLimitDelay,
                          batchSize |-> options.batchSize,
                          maxRetries |-> options.maxRetries]
    /\ rateLimitDelay' = OrDefault(options.rateLimitDelay, DefaultRateLimitDelay)
    /\ batchSize' = OrDefault(options.batchSize, DefaultBatchSize)
    /\ maxRetries' = OrDefault(options.maxRetries, DefaultMaxRetries)
    /\ memoryCache' = EmptyCache
    /\ stats' = EmptyStats
    /\ processamentoAtivo' = FALSE
    /\ progressoAtual' = NoProgress
    /\ pc' = "idle"
    /\ clientes' = <<>>
    /\ processedIds' = {}
    /\ clientesPendentes' = <<>>
    /\ totalBatches' = 0
    /\ batchIndex' = 0
    /\ lote' = <<>>
    /\ pos' = 0
    /\ tentativa' = 0
    /\ args' = NoArgs
    /\ saveQueue' = <<>>
    /\ sigint' = <<>>

Init ==
    /\ \E d \in Deployments : /\ storeFile = MakeClientes(d.fixture)
                                /\ options = d.options
                                /\ cacheFile \in CacheFiles(d)
    /\ progressFile = <<>>
    /\ provider = [a \in Enderecos |-> "unknown"]
    /\ proc = "up"
    /\ hist = HistInit
    /\ Constructed

(***************************************************************************)
(* Helpers of the pipeline.                                                *)
(***************************************************************************)
Presente(file) == file # <<>>

cacheEnabled == options.cacheEnabled

\* variant of loadCache: the file is not read
loadCacheUnread(mem, file) == mem

\* variant of loadCache: the map is replaced by what was read
loadCacheReplacing(mem, file) ==
    IF cacheEnabled /\ Presente(file) THEN file[1] ELSE EmptyCache

\* loadCache (35-50): the entries of the file are set over the map
loadCache(mem, file) ==
    IF cacheEnabled /\ Presente(file) THEN file[1] @@ mem ELSE mem

\* saveCache (55-65): the file after the call
saveCache(mem, file) ==
    IF ~cacheEnabled \/ DOMAIN mem = {} THEN file ELSE <<mem>>

\* variant of loadProgress: the saved state is never taken up
loadProgressIgnored(resumir, file) == [processedIds |-> {}, startBatch |-> 0]

\* loadProgress (175-182) as used at 203-213: the ids already processed and
\* the batch the loop starts from
loadProgress(resumir, file) ==
    IF resumir /\ Presente(file)
    THEN [processedIds |-> file[1].processedIds, startBatch |-> file[1].currentBatch]
    ELSE [processedIds |-> {}, startBatch |-> 0]

\* variant of EhPendente: resolved records are pending too
EhPendenteResolvido(c, ids) == c.id \notin ids

\* filter of 216-219, as indexes into clientes
EhPendente(c, ids) ==
    /\ c.id \notin ids
    /\ (~c.geocoded \/ c.latitude = 0 \/ c.longitude = 0)

Pendentes(cls, ids) ==
    SelectSeq([i \in 1..Len(cls) |-> i], LAMBDA i : EhPendente(cls[i], ids))

\* Math.ceil(length / batchSize) (224)
TotalBatches(n, bs) == (n + bs - 1) \div bs

\* variant of Lote: the slice is taken from its last record to its first
LoteReverso(pend, bi, bs) ==
    LET start == bi * bs
        end == Min(start + bs, Len(pend))
    IN  [j \in 1..(IF end > start THEN end - start ELSE 0) |-> pend[end + 1 - j]]

\* slice(start, end) of 227-229
Lote(pend, bi, bs) ==
    LET start == bi * bs
        end == Min(start + bs, Len(pend))
    IN  SubSeq(pend, start + 1, end)

\* 244-255
\* variant of Atualizado: the record is replaced by a new one that carries
\* the address and the outcome, not the id
AtualizadoNovo(c, coordenadas) ==
    IF coordenadas # <<>>
    THEN [NovoCliente(0, c.endereco)
             EXCEPT !.latitude = coordenadas[1].latitude,
                    !.longitude = coordenadas[1].longitude,
                    !.geocoded = TRUE,
                    !.data_geocodificacao = TRUE,
                    !.cached = coordenadas[1].cached]
    ELSE [NovoCliente(0, c.endereco) EXCEPT !.data_geocodificacao = TRUE]

Atualizado(c, coordenadas) ==
    IF coordenadas # <<>>
    THEN [c EXCEPT !.latitude = coordenadas[1].latitude,
                   !.longitude = coordenadas[1].longitude,
                   !.geocoded = TRUE,
                   !.data_geocodificacao = TRUE,
                   !.cached = coordenadas[1].cached]
    ELSE [c EXCEPT !.geocoded = FALSE, !.data_geocodificacao = TRUE]

\* variant of ajustarRateLimit: the increase is not capped
ajustarRateLimitUncapped(delay, st) ==
    LET alta == st.processed > 0 /\ 10 * st.errors > st.processed
        baixa == st.processed = 0 \/ 50 * st.errors < st.processed
    IN  IF alta THEN delay + GovStepUp
        ELSE IF baixa /\ delay > GovMinDelay THEN Max(delay - GovStepDown, GovMinDelay)
        ELSE delay

\* ajustarRateLimit (331-341): the delay after the call
ajustarRateLimit(delay, st) ==
    LET alta == st.processed > 0 /\ 10 * st.errors > st.processed
        baixa == st.processed = 0 \/ 50 * st.errors < st.processed
    IN  IF alta THEN Min(delay + GovStepUp, GovMaxDelay)
        ELSE IF baixa /\ delay > GovMinDelay THEN Max(delay - GovStepDown, GovMinDelay)
        ELSE delay

\* variant of the store of 91-93: results are never stored
CachePutNever(mem, key, resultado) == mem

\* variant of the store of 91-93: the map holds the last result only
CachePutOnly(mem, key, resultado) ==
    IF resultado # <<>> /\ cacheEnabled THEN (key :> resultado[1]) ELSE mem

\* variant of the store of 91-93: whatever the lookup returned is stored,
\* whether the cache is enabled or not
CachePutAll(mem, key, resultado) ==
    IF resultado # <<>> THEN (key :> resultado[1]) @@ mem
    ELSE (key :> [latitude |-> 0, longitude |-> 0, cached |-> FALSE]) @@ mem

\* 91-93: a result is stored when there is one and the cache is enabled
CachePut(mem, key, resultado) ==
    IF resultado # <<>> /\ cacheEnabled THEN (key :> resultado[1]) @@ mem ELSE mem

\* variant of the retry guard: one more attempt
PodeRepetirInclusive(tent, max) == tent <= max

\* the retry guard of 143
PodeRepetir(tent, max) == tent < max

\* variant of the saved state: only the ids of the batch just processed
CheckpointOfBatch(ids, currentBatch, st) ==
    [processedIds |-> {clientes[lote[j]].id : j \in 1..Len(lote)},
     currentBatch |-> currentBatch, stats |-> st]

\* variant of the saved state: the index of the batch just processed
CheckpointSameBatch(ids, currentBatch, st) ==
    [processedIds |-> ids, currentBatch |-> currentBatch - 1, stats |-> st]

\* the state written by saveProgress (158-163)
Checkpoint(ids, currentBatch, st) ==
    [processedIds |-> ids, currentBatch |-> currentBatch, stats |-> st]

\* variant of the guard: every start is accepted
StartAlways == TRUE

\* the guard of both start routes (151, 359)
StartAccepted == ~processamentoAtivo

\* Number.prototype.toFixed(1) of num / den * 100, as characters
DigitChars == <<"0", "1", "2", "3", "4", "5", "6", "7", "8", "9">>

RECURSIVE IntToChars(_)
IntToChars(n) ==
    IF n < 10 THEN <<DigitChars[n + 1]>>
    ELSE IntToChars(n \div 10) \o <<DigitChars[(n % 10) + 1]>>

PercentToFixed1(num, den) ==
    IF den = 0 THEN <<"N", "a", "N">>
    ELSE LET tenths == (2000 * num + den) \div (2 * den)
         IN  IntToChars(tenths \div 10) \o <<".">> \o IntToChars(tenths % 10)

\* variant of gerarRelatorioDetalhado: only the records marked as failed are
\* counted as not geocoded
gerarRelatorioSoMarcados(cls) ==
    LET total == Len(cls)
        geocodificados ==
            Cardinality({i \in 1..total : /\ cls[i].geocoded
                                          /\ cls[i].latitude # 0
                                          /\ cls[i].longitude # 0})
    IN  [total |-> total,
         geocodificados |-> geocodificados,
         naoGeocodificados |->
             Cardinality({i \in 1..total : /\ cls[i].data_geocodificacao
                                           /\ ~cls[i].geocoded}),
         taxaSucesso |-> PercentToFixed1(geocodificados, total) \o <<"%">>,
         cacheHits |-> Cardinality({i \in 1..total : cls[i].cached})]

\* gerarRelatorioDetalhado (350-379): the summary
gerarRelatorioDetalhado(cls) ==
    LET total == Len(cls)
        geocodificados ==
            Cardinality({i \in 1..total : /\ cls[i].geocoded
                                          /\ cls[i].latitude # 0
                                          /\ cls[i].longitude # 0})
    IN  [total |-> total,
         geocodificados |-> geocodificados,
         naoGeocodificados |-> total - geocodificados,
         taxaSucesso |-> PercentToFixed1(geocodificados, total) \o <<"%">>,
         cacheHits |-> Cardinality({i \in 1..total : cls[i].cached})]

\* tempoProcessamento of the summary (362-363): a duration once a run of the
\* service has started and ended
tempoProcessamento(st) ==
    IF st.endTime /\ st.startTime THEN "segundos" ELSE "N/A"

\* variant of Repete: an empty candidate list is retried like a failure
RepeteVazio(r, tent, max) == PodeRepetir(tent, max)

\* 123-147: only a request that failed (the catch) is attempted again; an
\* answer without candidates returns null at once
Repete(r, tent, max) == r = "error" /\ PodeRepetir(tent, max)

\* variant of StatsReset: the errors counted so far are kept
StatsResetKeepsErrors(st, n) ==
    [st EXCEPT !.total = n, !.processed = 0, !.success = 0, !.cached = 0,
               !.startTime = TRUE]

\* 188-193: the counters at the start of a run over n records
StatsReset(st, n) ==
    [st EXCEPT !.total = n, !.processed = 0, !.success = 0, !.errors = 0,
               !.cached = 0, !.startTime = TRUE]

\* variant of StatsRetry: every failed attempt is counted as an error
StatsRetryCounted(st) == [st EXCEPT !.errors = @ + 1]

\* 139-147: a failed attempt that is retried changes no counter (errors is
\* incremented at 149, after the last attempt only)
StatsRetry(st) == st

\* history: the time slept since the last request, up to the ceiling
Waited(gap, ms) == Min(gap + ms, RateCeiling)

\* variant: the loop does not sleep after a record
ConcluiClienteSemEspera(i, coordenadas, st, h) ==
    LET st2 == [st EXCEPT !.processed = @ + 1]
    IN  /\ clientes' = [clientes EXCEPT ![i] = Atualizado(clientes[i], coordenadas)]
        /\ processedIds' = processedIds \cup {clientes[i].id}
        /\ stats' = st2
        /\ progressoAtual' =
               [processados |-> st2.processed, total |-> st2.total,
                status |-> IF coordenadas # <<>> THEN "sucesso" ELSE "erro"]
        /\ saveQueue' =
               IF st2.processed % SaveEvery = 0
               THEN Append(saveQueue, [processados |-> st2.processed, rota |-> args.rota])
               ELSE saveQueue
        /\ pos' = pos + 1
        /\ pc' = "next"
        /\ hist' = h

(***************************************************************************)
(* 243-275: the record is updated, counted, reported through onProgress    *)
(* (168-181, 375-382), and the loop waits rateLimitDelay.  st and h are    *)
(* the stats and the history after the lookup.                             *)
(***************************************************************************)
ConcluiCliente(i, coordenadas, st, h) ==
    LET st2 == [st EXCEPT !.processed = @ + 1]
    IN  /\ clientes' = [clientes EXCEPT ![i] = Atualizado(clientes[i], coordenadas)]
        /\ processedIds' = processedIds \cup {clientes[i].id}
        /\ stats' = st2
        /\ progressoAtual' =
               [processados |-> st2.processed, total |-> st2.total,
                status |-> IF coordenadas # <<>> THEN "sucesso" ELSE "erro"]
        /\ saveQueue' =
               IF st2.processed % SaveEvery = 0
               THEN Append(saveQueue, [processados |-> st2.processed, rota |-> args.rota])
               ELSE saveQueue
        /\ pos' = pos + 1
        /\ pc' = "next"
        /\ hist' = [h EXCEPT !.run.gap = Waited(@, rateLimitDelay)]

(***************************************************************************)
(* POST /api/geocodificar-otimizado (150-224) and POST /api/geocodificar   *)
(* (357-424), accepted: the flag is raised, the records are read and       *)
(* processarClientesOtimizado is invoked (188-193 reset the counters).     *)
(* Autosaves of a finished run have been written by then: they write the   *)
(* array its final save wrote.                                             *)
(***************************************************************************)
PostGeocodificar(rota, resumir) ==
    /\ proc = "up"
    /\ StartAccepted
    /\ hist.runs < MaxRuns
    /\ saveQueue = <<>>
    /\ processamentoAtivo' = TRUE
    /\ progressoAtual' = [processados |-> 0, total |-> 0, status |-> "iniciando"]
    /\ clientes' = storeFile
    /\ stats' = StatsReset(stats, Len(storeFile))
    /\ args' = [rota |-> rota, resumir |-> resumir]
    /\ pc' = "load"
    /\ hist' = [hist EXCEPT !.runs = @ + 1, !.activeRuns = @ + 1,
                            !.run = RunHist]
    /\ UNCHANGED <<disk, provider, options, proc, config, memoryCache,
                   processedIds, clientesPendentes, totalBatches, batchIndex,
                   lote, pos, tentativa, saveQueue, sigint>>

\* the same routes while a run is active: 400, nothing else
PostRejeitado ==
    /\ proc = "up"
    /\ ~StartAccepted
    /\ hist' = [hist EXCEPT !.run.rejected = TRUE]
    /\ UNCHANGED <<disk, provider, options, proc, config, memoryCache, stats,
                   server, run, saveQueue, sigint>>

\* 201-229: cache and checkpoint are loaded, the pending records are
\* filtered and the first batch is sliced
RunLoadFrom(cfile, pfile) ==
    /\ proc = "up"
    /\ pc = "load"
    /\ LET ids == loadProgress(args.resumir, pfile).processedIds
           startBatch == loadProgress(args.resumir, pfile).startBatch
           pend == Pendentes(clientes, ids)
           total == TotalBatches(Len(pend), batchSize)
       IN  /\ memoryCache' = loadCache(memoryCache, cfile)
           /\ processedIds' = ids
           /\ clientesPendentes' = pend
           /\ totalBatches' = total
           /\ batchIndex' = startBatch
           /\ IF startBatch < total
              THEN /\ lote' = Lote(pend, startBatch, batchSize)
                   /\ pos' = 1
                   /\ pc' = "next"
              ELSE /\ lote' = <<>>
                   /\ pos' = 0
                   /\ pc' = "finish"
    /\ hist' = [hist EXCEPT
                   !.run.ckptIds = IF args.resumir /\ Presente(pfile)
                                   THEN pfile[1].processedIds ELSE {},
                   !.run.pendingAtStart =
                       {clientes[i].id : i \in
                           {j \in 1..Len(clientes) :
                               /\ ~(args.resumir /\ Presente(pfile)
                                    /\ clientes[j].id \in pfile[1].processedIds)
                               /\ ~(/\ clientes[j].geocoded
                                    /\ clientes[j].latitude # 0
                                    /\ clientes[j].longitude # 0)}}]
    /\ UNCHANGED <<disk, provider, options, proc, config, stats, server,
                   clientes, tentativa, args, saveQueue, sigint>>

RunLoad ==
    /\ pc = "load"
    /\ RunLoadFrom(cacheFile, progressFile)

\* the same with a read that fails (46-48, 179-181): nothing is read
RunLoadFails ==
    \E cfile \in {cacheFile, <<>>}, pfile \in {progressFile, <<>>} :
        /\ cfile # cacheFile \/ pfile # progressFile
        /\ RunLoadFrom(cfile, pfile)

\* 234-241 and 77-88: the next record of the batch, after the wait of 275;
\* getCacheKey (71) throws on a record without endereco and the call rejects
ProcessNext ==
    /\ proc = "up"
    /\ pc = "next"
    /\ IF pos > Len(lote)
       THEN /\ pc' = "saveProgress"
            /\ UNCHANGED <<clientes, processedIds, stats, progressoAtual,
                           saveQueue, pos, tentativa, hist>>
       ELSE LET i == lote[pos]
                key == CacheKey(clientes[i].endereco)
            IN  IF clientes[i].id \in processedIds
                THEN /\ pos' = pos + 1
                     /\ UNCHANGED <<pc, clientes, processedIds, stats,
                                    progressoAtual, saveQueue, tentativa, hist>>
                ELSE IF clientes[i].endereco = SemEndereco
                THEN /\ pc' = "catch"
                     /\ hist' = [hist EXCEPT !.run.submitted =
                                                 Append(@, clientes[i].id)]
                     /\ UNCHANGED <<clientes, processedIds, stats,
                                    progressoAtual, saveQueue, pos, tentativa>>
                ELSE IF key \in DOMAIN memoryCache
                THEN /\ ConcluiCliente(i, <<memoryCache[key]>>,
                                       [stats EXCEPT !.cached = @ + 1],
                                       [hist EXCEPT !.run.submitted =
                                                        Append(@, clientes[i].id)])
                     /\ UNCHANGED tentativa
                ELSE /\ pc' = "request"
                     /\ tentativa' = 1
                     /\ hist' = [hist EXCEPT
                                    !.run.lookupCalls[key] = @ + 1,
                                    !.run.submitted = Append(@, clientes[i].id),
                                    !.run.waited = IF hist.run.requests = 0
                                                   THEN RateCeiling
                                                   ELSE hist.run.gap,
                                    !.run.gap = 0,
                                    !.run.lk = [NoLookup EXCEPT
                                                  !.outcome = "pending",
                                                  !.max0 = maxRetries]]
                     /\ UNCHANGED <<clientes, processedIds, stats,
                                    progressoAtual, saveQueue, pos>>
    /\ UNCHANGED <<disk, provider, options, proc, config, memoryCache,
                   processamentoAtivo, clientesPendentes, totalBatches,
                   batchIndex, lote, args, sigint>>

\* 117-151 and 88-95: the request in flight is answered or fails
ProviderResponds ==
    /\ proc = "up"
    /\ pc = "request"
    /\ LET i == lote[pos]
           a == clientes[i].endereco
           key == CacheKey(a)
       IN  \E mode \in ProviderModes :
             /\ provider[a] \in {"unknown", mode}
             /\ provider[a] = "unknown" /\ mode # "found" => Faulty < MaxFaulty
             /\ provider' = [provider EXCEPT ![a] = mode]
             /\ LET r == Resposta(mode, tentativa)
                    pedido == [hist EXCEPT !.run.requests = @ + 1,
                                           !.run.lk.reqs = @ + 1]
                    achou == [pedido EXCEPT !.run.lk.outcome = "found"]
                    falhou(como) ==
                        [pedido EXCEPT !.run.lookupFails[key] = @ + 1,
                                       !.run.lk.outcome = como,
                                       !.run.lk.errors = @ + 1,
                                       !.run.lk.nulo = TRUE]
                IN  CASE r = "found" ->
                           /\ memoryCache' = CachePut(memoryCache, key, <<Resultado(a)>>)
                           /\ ConcluiCliente(i, <<Resultado(a)>>,
                                             [stats EXCEPT !.success = @ + 1], achou)
                           /\ UNCHANGED tentativa
                      [] r # "found" /\ Repete(r, tentativa, maxRetries) ->
                           /\ pc' = "retryWait"
                           /\ hist' = pedido
                           /\ stats' = StatsRetry(stats)
                           /\ UNCHANGED <<memoryCache, clientes, processedIds,
                                          progressoAtual, saveQueue,
                                          pos, tentativa>>
                      [] r # "found" /\ ~Repete(r, tentativa, maxRetries) ->
                           /\ ConcluiCliente(i, <<>>,
                                             [stats EXCEPT !.errors = @ + 1],
                                             falhou(IF r = "empty" THEN "empty"
                                                    ELSE "exhausted"))
                           /\ memoryCache' = CachePut(memoryCache, key, <<>>)
                           /\ UNCHANGED tentativa
    /\ UNCHANGED <<disk, options, proc, config, processamentoAtivo,
                   clientesPendentes, totalBatches, batchIndex, lote, args,
                   sigint>>

\* 143-147: after retryDelay the lookup is attempted again
RetryFire ==
    /\ proc = "up"
    /\ pc = "retryWait"
    /\ tentativa' = tentativa + 1
    /\ pc' = "request"
    /\ hist' = [hist EXCEPT !.run.waited = Waited(hist.run.gap, RetryDelay),
                            !.run.gap = 0]
    /\ UNCHANGED <<disk, provider, options, proc, config, memoryCache, stats,
                   server, clientes, processedIds, clientesPendentes,
                   totalBatches, batchIndex, lote, pos, args, saveQueue,
                   sigint>>

\* saveProgress (157-170) as called at 279
SaveProgress ==
    /\ proc = "up"
    /\ pc = "saveProgress"
    /\ progressFile' = <<Checkpoint(processedIds, batchIndex + 1, stats)>>
    /\ pc' = "saveCache"
    /\ hist' = [hist EXCEPT !.run.saved =
                   Append(@, [n |-> Cardinality(progressFile'[1].processedIds),
                              currentBatch |-> progressFile'[1].currentBatch])]
    /\ UNCHANGED <<storeFile, cacheFile, provider, options, proc, config,
                   memoryCache, stats, server, clientes, processedIds,
                   clientesPendentes, totalBatches, batchIndex, lote, pos,
                   tentativa, args, saveQueue, sigint>>

\* saveProgress with a write that fails (165-169): the file is as it was
SaveProgressFails ==
    /\ proc = "up"
    /\ pc = "saveProgress"
    /\ pc' = "saveCache"
    /\ UNCHANGED <<disk, provider, options, proc, config, memoryCache, stats,
                   server, clientes, processedIds, clientesPendentes,
                   totalBatches, batchIndex, lote, pos, tentativa, args,
                   saveQueue, sigint, hist>>

\* 280-291: the cache is flushed; a pause follows unless the batch was the last
SaveCacheLote ==
    /\ proc = "up"
    /\ pc = "saveCache"
    /\ cacheFile' = saveCache(memoryCache, cacheFile)
    /\ IF batchIndex < totalBatches - 1
       THEN /\ pc' = "pause"
            /\ UNCHANGED batchIndex
       ELSE /\ pc' = "finish"
            /\ batchIndex' = batchIndex + 1
    /\ UNCHANGED <<storeFile, progressFile, provider, options, proc, config,
                   memoryCache, stats, server, clientes, processedIds,
                   clientesPendentes, totalBatches, lote, pos, tentativa,
                   args, saveQueue, sigint, hist>>

\* the same with a write that fails (62-64): the file is as it was
SaveCacheLoteFails ==
    /\ proc = "up"
    /\ pc = "saveCache"
    /\ IF batchIndex < totalBatches - 1
       THEN /\ pc' = "pause"
            /\ UNCHANGED batchIndex
       ELSE /\ pc' = "finish"
            /\ batchIndex' = batchIndex + 1
    /\ UNCHANGED <<disk, provider, options, proc, config, memoryCache, stats,
                   server, clientes, processedIds, clientesPendentes,
                   totalBatches, lote, pos, tentativa, args, saveQueue,
                   sigint, hist>>

\* 226-229 after the pause of 289: the next batch is sliced
PauseDone ==
    /\ proc = "up"
    /\ pc = "pause"
    /\ batchIndex' = batchIndex + 1
    /\ lote' = Lote(clientesPendentes, batchIndex + 1, batchSize)
    /\ pos' = 1
    /\ pc' = "next"
    /\ hist' = [hist EXCEPT !.run.gap = Waited(@, PauseDelay)]
    /\ UNCHANGED <<disk, provider, options, proc, config, memoryCache, stats,
                   server, clientes, processedIds, clientesPendentes,
                   totalBatches, tentativa, args, saveQueue, sigint>>

\* 293-309
RunFinish ==
    /\ proc = "up"
    /\ pc = "finish"
    /\ stats' = [stats EXCEPT !.endTime = TRUE]
    /\ cacheFile' = saveCache(memoryCache, cacheFile)
    /\ pc' = "then"
    /\ UNCHANGED <<storeFile, progressFile, provider, options, proc, config,
                   memoryCache, server, clientes, processedIds,
                   clientesPendentes, totalBatches, batchIndex, lote, pos,
                   tentativa, args, saveQueue, sigint, hist>>

\* 293-309 with a cache write that fails
RunFinishFails ==
    /\ proc = "up"
    /\ pc = "finish"
    /\ stats' = [stats EXCEPT !.endTime = TRUE]
    /\ pc' = "then"
    /\ UNCHANGED <<disk, provider, options, proc, config, memoryCache, server,
                   clientes, processedIds, clientesPendentes, totalBatches,
                   batchIndex, lote, pos, tentativa, args, saveQueue, sigint,
                   hist>>

\* .then of 185-195 / 386-396; the locals of the returned call are dropped
RunThen ==
    /\ proc = "up"
    /\ pc = "then"
    /\ storeFile' = clientes
    /\ processamentoAtivo' = FALSE
    /\ progressoAtual' = [progressoAtual EXCEPT !.status = "concluido"]
    /\ pc' = "idle"
    /\ clientes' = <<>>
    /\ processedIds' = {}
    /\ clientesPendentes' = <<>>
    /\ totalBatches' = 0
    /\ batchIndex' = 0
    /\ lote' = <<>>
    /\ pos' = 0
    /\ tentativa' = 0
    /\ args' = NoArgs
    /\ hist' = [hist EXCEPT !.activeRuns = @ - 1]
    /\ UNCHANGED <<cacheFile, progressFile, provider, options, proc, config,
                   memoryCache, stats, saveQueue, sigint>>

\* variant of RunCatch: the flag is left as it is
RunCatchKeepsFlag ==
    /\ proc = "up"
    /\ pc = "catch"
    /\ storeFile' = clientes
    /\ processamentoAtivo' = processamentoAtivo
    /\ progressoAtual' = [progressoAtual EXCEPT !.status = "erro"]
    /\ pc' = "idle"
    /\ clientes' = <<>>
    /\ processedIds' = {}
    /\ clientesPendentes' = <<>>
    /\ totalBatches' = 0
    /\ batchIndex' = 0
    /\ lote' = <<>>
    /\ pos' = 0
    /\ tentativa' = 0
    /\ args' = NoArgs
    /\ hist' = [hist EXCEPT !.activeRuns = @ - 1]
    /\ UNCHANGED <<cacheFile, progressFile, provider, options, proc, config,
                   memoryCache, stats, saveQueue, sigint>>

\* .catch of 196-208 / 397-409: the records are saved as they are
RunCatch ==
    /\ proc = "up"
    /\ pc = "catch"
    /\ storeFile' = clientes
    /\ processamentoAtivo' = FALSE
    /\ progressoAtual' = [progressoAtual EXCEPT !.status = "erro"]
    /\ pc' = "idle"
    /\ clientes' = <<>>
    /\ processedIds' = {}
    /\ clientesPendentes' = <<>>
    /\ totalBatches' = 0
    /\ batchIndex' = 0
    /\ lote' = <<>>
    /\ pos' = 0
    /\ tentativa' = 0
    /\ args' = NoArgs
    /\ hist' = [hist EXCEPT !.activeRuns = @ - 1]
    /\ UNCHANGED <<cacheFile, progressFile, provider, options, proc, config,
                   memoryCache, stats, saveQueue, sigint>>

\* onProgress after its await (172-180): the records are written and, on the
\* optimized route, the governor runs at every 50th record.  After the run
\* has returned the array is the one the final save wrote.
AutoSaveDone ==
    /\ proc = "up"
    /\ saveQueue # <<>>
    /\ storeFile' = IF pc = "idle" THEN storeFile ELSE clientes
    /\ rateLimitDelay' =
           IF Head(saveQueue).rota = "otimizado"
              /\ Head(saveQueue).processados % AdjustEvery = 0
           THEN ajustarRateLimit(rateLimitDelay, stats)
           ELSE rateLimitDelay
    /\ saveQueue' = Tail(saveQueue)
    /\ UNCHANGED <<cacheFile, progressFile, provider, options, proc,
                   geocodingConfig, batchSize, maxRetries, memoryCache, stats,
                   server, run, sigint, hist>>

(***************************************************************************)
(* Control surface and signals.                                            *)
(***************************************************************************)
\* variant of the validation: no lower limit on batchSize
ConfiguradoSemMinimo(cur, req) ==
    [rateLimitDelay |-> IF req.rateLimitDelay # 0 /\ req.rateLimitDelay >= CfgMinDelay
                        THEN req.rateLimitDelay ELSE cur.rateLimitDelay,
     batchSize |-> IF req.batchSize # 0 /\ req.batchSize <= CfgMaxBatch
                   THEN req.batchSize ELSE cur.batchSize,
     maxRetries |-> IF /\ req.maxRetries # 0
                       /\ req.maxRetries >= CfgMinRetries
                       /\ req.maxRetries <= CfgMaxRetries
                    THEN req.maxRetries ELSE cur.maxRetries]

\* PUT /api/configuracao (312-327): the three settings of one object after
\* the request; a field is taken when it is sent (truthy) and within its limits
Configurado(cur, req) ==
    [rateLimitDelay |-> IF req.rateLimitDelay # 0 /\ req.rateLimitDelay >= CfgMinDelay
                        THEN req.rateLimitDelay ELSE cur.rateLimitDelay,
     batchSize |-> IF /\ req.batchSize # 0
                      /\ req.batchSize >= CfgMinBatch
                      /\ req.batchSize <= CfgMaxBatch
                   THEN req.batchSize ELSE cur.batchSize,
     maxRetries |-> IF /\ req.maxRetries # 0
                       /\ req.maxRetries >= CfgMinRetries
                       /\ req.maxRetries <= CfgMaxRetries
                    THEN req.maxRetries ELSE cur.maxRetries]

\* the settings of the service object
Servico ==
    [rateLimitDelay |-> rateLimitDelay, batchSize |-> batchSize,
     maxRetries |-> maxRetries]

\* PUT /api/configuracao (310-331): the settings are set on the
\* configuration and on the service
AplicaConfiguracao(req) ==
    /\ geocodingConfig' = Configurado(geocodingConfig, req)
    /\ rateLimitDelay' = Configurado(Servico, req).rateLimitDelay
    /\ batchSize' = Configurado(Servico, req).batchSize
    /\ maxRetries' = Configurado(Servico, req).maxRetries

PutConfiguracao(req) ==
    /\ proc = "up"
    /\ hist.events < MaxEvents
    /\ AplicaConfiguracao(req)
    /\ hist' = IF config' # config
               THEN [hist EXCEPT !.events = @ + 1,
                                 !.run.lk.stable = @ /\ ~(/\ maxRetries' # maxRetries
                                                          /\ pc \in {"request", "retryWait"}),
                                 !.run.resized = @ \/ (/\ batchSize' # batchSize
                                                       /\ processamentoAtivo)]
               ELSE hist
    /\ UNCHANGED <<disk, provider, options, proc, memoryCache, stats, server,
                   run, saveQueue, sigint>>

\* requests of the configuration route: one field each (0: field not sent)
PutRequests ==
    {[rateLimitDelay |-> d, batchSize |-> 0, maxRetries |-> 0] : d \in {400, 500}}
    \cup {[rateLimitDelay |-> 0, batchSize |-> b, maxRetries |-> 0] : b \in {5, 10}}
    \cup {[rateLimitDelay |-> 0, batchSize |-> 0, maxRetries |-> m] : m \in {1, 11}}

\* POST /api/limpar-cache -> limparCache (384-393): the first unlink that
\* fails ends the call
PostLimparCache ==
    /\ proc = "up"
    /\ hist.events < MaxEvents
    /\ cacheFile' = <<>>
    /\ progressFile' = IF Presente(cacheFile) THEN <<>> ELSE progressFile
    /\ IF Presente(cacheFile) /\ Presente(progressFile)
       THEN /\ memoryCache' = EmptyCache
            /\ hist' = [hist EXCEPT !.events = @ + 1,
                                    !.run.lookupCalls = ZeroKeys,
                                    !.run.lookupFails = ZeroKeys]
       ELSE /\ memoryCache' = memoryCache
            /\ hist' = [hist EXCEPT !.events = @ + 1]
    /\ UNCHANGED <<storeFile, provider, options, proc, config, stats, server,
                   run, saveQueue, sigint>>

\* the memory of a process that is gone
Gone ==
    /\ geocodingConfig' = geocodingConfig
    /\ rateLimitDelay' = 0
    /\ batchSize' = 0
    /\ maxRetries' = 0
    /\ memoryCache' = EmptyCache
    /\ stats' = EmptyStats
    /\ processamentoAtivo' = FALSE
    /\ progressoAtual' = NoProgress
    /\ pc' = "idle"
    /\ clientes' = <<>>
    /\ processedIds' = {}
    /\ clientesPendentes' = <<>>
    /\ totalBatches' = 0
    /\ batchIndex' = 0
    /\ lote' = <<>>
    /\ pos' = 0
    /\ tentativa' = 0
    /\ args' = NoArgs
    /\ saveQueue' = <<>>
    /\ sigint' = <<>>

\* what the history keeps of a process that is gone: how it ended
\* ("kill" right after a checkpoint save is told apart)
Ended(how) ==
    [hist EXCEPT !.events = @ + 1, !.activeRuns = 0, !.exit = how,
                 !.run = RunHist]

\* SIGINT (488-494): with a run active the handler reads the record file
SigintReceived ==
    /\ proc = "up"
    /\ sigint = <<>>
    /\ hist.events < MaxEvents
    /\ IF processamentoAtivo
       THEN /\ sigint' = <<storeFile>>
            /\ UNCHANGED <<proc, config, memoryCache, stats, server, run,
                           saveQueue>>
            /\ hist' = [hist EXCEPT !.events = @ + 1]
       ELSE /\ proc' = "down"
            /\ Gone
            /\ hist' = Ended("sigint")
    /\ UNCHANGED <<disk, provider, options>>

\* SIGINT (495-502): what was read is written back, the cache is saved and
\* the process exits
SigintExit ==
    /\ proc = "up"
    /\ sigint # <<>>
    /\ storeFile' = sigint[1]
    /\ cacheFile' = saveCache(memoryCache, cacheFile)
    /\ proc' = "down"
    /\ Gone
    /\ hist' = [Ended("sigint") EXCEPT !.events = hist.events]
    /\ UNCHANGED <<progressFile, provider, options>>

\* the process is killed or crashes
Kill ==
    /\ proc = "up"
    /\ sigint = <<>>
    /\ hist.events < MaxEvents
    /\ proc' = "down"
    /\ Gone
    /\ hist' = Ended(IF pc \in {"saveCache", "pause"} THEN "killAfterSave" ELSE "kill")
    /\ UNCHANGED <<disk, provider, options>>

\* GET /api/relatorio-detalhado (242-256): the report over the record file;
\* the history keeps the last two reports that differ
GetRelatorioDetalhado ==
    /\ proc = "up"
    /\ LET relatorio ==
               [clientes |-> storeFile,
                resumo |-> gerarRelatorioDetalhado(storeFile),
                tempoProcessamento |-> tempoProcessamento(stats),
                estatisticas |-> stats]
           ultimos == hist.relatorio
       IN  hist' = [hist EXCEPT !.relatorio =
                        IF ultimos # <<>> /\ ultimos[Len(ultimos)] = relatorio
                        THEN ultimos
                        ELSE IF ultimos = <<>> THEN <<relatorio>>
                        ELSE <<ultimos[Len(ultimos)], relatorio>>]
    /\ UNCHANGED <<disk, provider, options, proc, config, memoryCache, stats,
                   server, run, saveQueue, sigint>>

\* the server is started again on the same files
Boot ==
    /\ proc = "down"
    /\ proc' = "up"
    /\ Construct
    /\ UNCHANGED <<disk, provider, options, hist>>

Next ==
    \/ \E resumir \in BOOLEAN : PostGeocodificar("otimizado", resumir)
    \/ PostGeocodificar("compat", TRUE)
    \/ PostRejeitado
    \/ RunLoad
    \/ ProcessNext
    \/ ProviderResponds
    \/ RetryFire
    \/ SaveProgress
    \/ SaveCacheLote
    \/ PauseDone
    \/ RunFinish
    \/ RunThen
    \/ RunCatch
    \/ AutoSaveDone
    \/ \E req \in PutRequests : PutConfiguracao(req)
    \/ PostLimparCache
    \/ SigintReceived
    \/ SigintExit
    \/ Kill
    \/ Boot

Spec == Init /\ [][Next]_vars

(***************************************************************************)
(* The governor on its own: a service constructed with a delay its caller  *)
(* chose (geocodingConfig 16-22, teste.js 85-90), reconfigured through the *)
(* configuration route and adjusted under any observed error rate.         *)
(***************************************************************************)
GovInitialDelays == {CfgMinDelay, DefaultRateLimitDelay}

GovPutDelays == {400, CfgMinDelay, GovMinDelay, GovMaxDelay, 3500}

\* error rates on both sides of the thresholds of 334 and 337
GovStats ==
    {[EmptyStats EXCEPT !.processed = AdjustEvery, !.errors = e] :
        e \in {0, 1, 5, 6, AdjustEvery}}

InitGov ==
    /\ storeFile = MakeClientes(Scenario)
    /\ \E d \in GovInitialDelays :
         options = [rateLimitDelay |-> d, batchSize |-> DefaultBatchSize,
                    maxRetries |-> DefaultMaxRetries, cacheEnabled |-> TRUE]
    /\ cacheFile = <<>>
    /\ progressFile = <<>>
    /\ provider = [a \in Enderecos |-> "unknown"]
    /\ proc = "up"
    /\ hist = HistInit
    /\ Constructed

\* ajustarRateLimit (331-341) under the counters of the moment
GovAjustar ==
    /\ \E st \in GovStats :
         /\ stats' = st
         /\ rateLimitDelay' = ajustarRateLimit(rateLimitDelay, st)
    /\ UNCHANGED <<disk, provider, options, proc, geocodingConfig, batchSize,
                   maxRetries, memoryCache, server, run, saveQueue, sigint, hist>>

\* PUT /api/configuracao with a delay
GovConfigura ==
    /\ \E d \in GovPutDelays :
         AplicaConfiguracao([rateLimitDelay |-> d, batchSize |-> 0, maxRetries |-> 0])
    /\ UNCHANGED <<disk, provider, options, proc, memoryCache, stats, server,
                   run, saveQueue, sigint, hist>>

NextGov ==
    \/ GovAjustar
    \/ GovConfigura

SpecGov == InitGov /\ [][NextGov]_vars

(***************************************************************************)
(* Reports requested at any moment of the runs of one process that is      *)
(* neither reconfigured nor stopped.                                       *)
(***************************************************************************)
NextReport ==
    \/ \E resumir \in BOOLEAN : PostGeocodificar("otimizado", resumir)
    \/ PostRejeitado
    \/ RunLoad
    \/ ProcessNext
    \/ ProviderResponds
    \/ RetryFire
    \/ SaveProgress
    \/ SaveCacheLote
    \/ PauseDone
    \/ RunFinish
    \/ RunThen
    \/ RunCatch
    \/ AutoSaveDone
    \/ GetRelatorioDetalhado

SpecReport == Init /\ [][NextReport]_vars

(***************************************************************************)
(* The runs of one process whose reads and writes of the cache file and    *)
(* the checkpoint file may fail.                                           *)
(***************************************************************************)
NextIO ==
    \/ \E resumir \in BOOLEAN : PostGeocodificar("otimizado", resumir)
    \/ PostRejeitado
    \/ RunLoad
    \/ RunLoadFails
    \/ ProcessNext
    \/ ProviderResponds
    \/ RetryFire
    \/ SaveProgress
    \/ SaveProgressFails
    \/ SaveCacheLote
    \/ SaveCacheLoteFails
    \/ PauseDone
    \/ RunFinish
    \/ RunFinishFails
    \/ RunThen
    \/ RunCatch
    \/ AutoSaveDone

SpecIO == Init /\ [][NextIO]_vars

(***************************************************************************)
(* Runs long enough for the governor: a record file of as many records as  *)
(* the period of the adjustment (172-179), started on either route.        *)
(***************************************************************************)
Cinquenta == [i \in 1..AdjustEvery |-> RuaOscar]

InitPeriod ==
    /\ storeFile = MakeClientes(Cinquenta)
    /\ options = [rateLimitDelay |-> DefaultRateLimitDelay,
                  batchSize |-> DefaultBatchSize,
                  maxRetries |-> DefaultMaxRetries, cacheEnabled |-> TRUE]
    /\ cacheFile = <<>>
    /\ progressFile = <<>>
    /\ provider = [a \in Enderecos |-> "unknown"]
    /\ proc = "up"
    /\ hist = HistInit
    /\ Constructed

NextPeriod ==
    \/ PostGeocodificar("otimizado", TRUE)
    \/ PostGeocodificar("compat", TRUE)
    \/ RunLoad
    \/ ProcessNext
    \/ ProviderResponds
    \/ RetryFire
    \/ SaveProgress
    \/ SaveCacheLote
    \/ RunFinish
    \/ RunThen
    \/ AutoSaveDone

SpecPeriod == InitPeriod /\ [][NextPeriod]_vars

(***************************************************************************)
(* A process that is not stopped.  Every continuation of the run is        *)
(* executed by the event loop once it is ready: a timer of sleep fires     *)
(* (145, 275, 289), a file operation completes, and the request to the     *)
(* provider answers or fails within its timeout (117-121).                 *)
(***************************************************************************)
RunStep ==
    \/ RunLoad
    \/ ProcessNext
    \/ ProviderResponds
    \/ RetryFire
    \/ SaveProgress
    \/ SaveCacheLote
    \/ PauseDone
    \/ RunFinish
    \/ RunThen
    \/ RunCatch

NextLive ==
    \/ \E resumir \in BOOLEAN : PostGeocodificar("otimizado", resumir)
    \/ PostGeocodificar("compat", TRUE)
    \/ PostRejeitado
    \/ RunStep
    \/ AutoSaveDone
    \/ \E req \in PutRequests : PutConfiguracao(req)
    \/ PostLimparCache

SpecLive == Init /\ [][NextLive]_vars /\ WF_vars(RunStep)

(***************************************************************************)
(* The server started in the directory where testeGrandeVolume has run:    *)
(* both use the default progress file (15), and the test's run over its    *)
(* own records (teste.js 109-119, ids 1..100, batches of 50) has left its  *)
(* last checkpoint there (279).                                            *)
(***************************************************************************)
TesteRegistros == 100
TesteBatchSize == 50

TesteCheckpoint ==
    Checkpoint(1..TesteRegistros, TesteRegistros \div TesteBatchSize,
               [EmptyStats EXCEPT !.total = TesteRegistros,
                                  !.processed = TesteRegistros,
                                  !.success = TesteRegistros,
                                  !.startTime = TRUE])

InitShared ==
    /\ storeFile = MakeClientes(Scenario)
    /\ options = [rateLimitDelay |-> DefaultRateLimitDelay, batchSize |-> 2,
                  maxRetries |-> 2, cacheEnabled |-> TRUE]
    /\ cacheFile = <<>>
    /\ progressFile = <<TesteCheckpoint>>
    /\ provider = [a \in Enderecos |-> "unknown"]
    /\ proc = "up"
    /\ hist = HistInit
    /\ Constructed

NextShared ==
    \/ \E resumir \in BOOLEAN : PostGeocodificar("otimizado", resumir)
    \/ PostRejeitado
    \/ RunLoad
    \/ ProcessNext
    \/ ProviderResponds
    \/ RetryFire
    \/ SaveProgress
    \/ SaveCacheLote
    \/ PauseDone
    \/ RunFinish
    \/ RunThen

SpecShared == InitShared /\ [][NextShared]_vars

(***************************************************************************)
(* The cache key on its own: a process started on a cache file that an     *)
(* earlier process wrote for one address, and a record file of two         *)
(* records, the second with that address; the run looks both up in the     *)
(* cache (77-85).                                                          *)
(***************************************************************************)
KeyChars == {"A", "a", " ", "\t"}

RECURSIVE StringsOf(_)
StringsOf(n) ==
    IF n = 0 THEN {<<>>}
    ELSE StringsOf(n - 1)
         \cup {Append(w, c) : w \in {v \in StringsOf(n - 1) : Len(v) = n - 1},
                              c \in KeyChars}

KeyInputs == StringsOf(MaxKeyLen)

KeyPeers ==
    {<<"a">>, <<"A", " ", "a">>, <<" ", "a", "\t", "A">>, <<"a", "a">>, <<" ">>}

InitKey ==
    /\ \E a \in KeyInputs, b \in KeyPeers :
         /\ storeFile = MakeClientes(<<a, b>>)
         /\ cacheFile = <<(getCacheKey(b) :> Resultado(AvPaulista))>>
    /\ options = [rateLimitDelay |-> DefaultRateLimitDelay,
                  batchSize |-> DefaultBatchSize,
                  maxRetries |-> DefaultMaxRetries, cacheEnabled |-> TRUE]
    /\ progressFile = <<>>
    /\ provider = [a \in Enderecos |-> "unknown"]
    /\ proc = "up"
    /\ hist = HistInit
    /\ Constructed

NextKey ==
    \/ PostGeocodificar("otimizado", TRUE)
    \/ RunLoad
    \/ ProcessNext

SpecKey == InitKey /\ [][NextKey]_vars

(***************************************************************************)
(* Properties.                                                             *)
(***************************************************************************)
Marcado(c) == c.data_geocodificacao

Resolvido(c) == c.geocoded /\ c.latitude # 0 /\ c.longitude # 0

\* whether a lookup of address a ends with coordinates under the provider's
\* behaviour for a
Resolve(a) ==
    \/ provider[a] = "found"
    \/ provider[a] = "late" /\ maxRetries >= 2

\* the assignment record i has after one uninterrupted run over records that
\* were all pending: resolved iff its lookup, or with the cache that of an
\* earlier record with its key, ends with coordinates
UninterruptedResolved(cls, i) ==
    IF cacheEnabled
    THEN \E j \in 1..i : /\ getCacheKey(cls[j].endereco) = getCacheKey(cls[i].endereco)
                         /\ Resolve(cls[j].endereco)
    ELSE Resolve(cls[i].endereco)

\* an uninterrupted first run ends in that assignment
UninterruptedRunReference ==
    (pc = "then" /\ hist.runs = 1 /\ hist.events = 0)
        => \A i \in 1..Len(clientes) :
               /\ Marcado(clientes[i])
               /\ Resolvido(clientes[i]) = UninterruptedResolved(clientes, i)

\* C1: a run stopped right after a batch's checkpoint save and run again
\* with resume ends with every record assigned as an uninterrupted run
\* assigns it.  Stated for the records the stopped run had not reached, whose
\* assignment does not depend on what the stopped run had written.
C1_IdempotentResume ==
    (pc = "then" /\ hist.exit = "killAfterSave" /\ args.resumir)
        => \A i \in 1..Len(clientes) :
               clientes[i].id \notin hist.run.ckptIds
                   => /\ Marcado(clientes[i])
                      /\ Resolvido(clientes[i]) = UninterruptedResolved(clientes, i)

GovInRange(d) == d >= GovMinDelay /\ d <= GovMaxDelay

\* the delay the service was last constructed or configured with
Configured == OrDefault(geocodingConfig.rateLimitDelay, DefaultRateLimitDelay)

\* C4 as stated: the delay of the service is always within [800, 3000]
C4_AlwaysWithinGovernorInterval == GovInRange(rateLimitDelay)

\* C4: the delay of the service is always within the governor's interval
\* widened to the delay last constructed or configured: ajustarRateLimit
\* never moves it out of [800, 3000] and moves a delay configured outside
\* only toward it
C4_WithinIntervalOrConfigured ==
    /\ rateLimitDelay >= Min(GovMinDelay, Configured)
    /\ rateLimitDelay <= Max(GovMaxDelay, Configured)

C4_Witness ==
    /\ geocodingConfig.rateLimitDelay = CfgMinDelay
    /\ rateLimitDelay = CfgMinDelay + GovStepUp
    /\ stats.errors > 0

\* C5: the checkpoints saveProgress persists during one run never decrease
\* in number of processedIds nor in currentBatch
C5_CheckpointMonotonic ==
    \A i \in 1..Len(hist.run.saved) : \A j \in i..Len(hist.run.saved) :
        /\ hist.run.saved[i].n <= hist.run.saved[j].n
        /\ hist.run.saved[i].currentBatch <= hist.run.saved[j].currentBatch

C5_Witness ==
    /\ Len(hist.run.saved) = 3
    /\ hist.run.saved[3].n > hist.run.saved[1].n

\* C6: never two invocations of processarClientesOtimizado active at once;
\* the flag is up as long as one is, so a start arriving then is rejected
C6_SingleActiveRun ==
    /\ hist.activeRuns <= 1
    /\ pc # "idle" => processamentoAtivo /\ hist.activeRuns = 1

C6_Witness ==
    /\ hist.run.rejected
    /\ pc = "request"
    /\ processamentoAtivo
    /\ stats.processed > 0

\* the ids passed to buscarCoordenadasComCache, in order, have no repetition
NoRepetition(seq) ==
    \A i \in 1..Len(seq) : \A j \in 1..Len(seq) : seq[i] = seq[j] => i = j

\* C7: no record whose id was loaded from the checkpoint or added to
\* processedIds earlier in the run is passed to buscarCoordenadasComCache
C7_NoResubmission ==
    /\ \A j \in 1..Len(hist.run.submitted) :
           hist.run.submitted[j] \notin hist.run.ckptIds
    /\ NoRepetition(hist.run.submitted)
    /\ pc = "request" => clientes[lote[pos]].id \notin processedIds

C7_Witness ==
    /\ hist.run.ckptIds # {}
    /\ Len(hist.run.submitted) > 0
    /\ pc = "then"

\* how many times id occurs in seq
RECURSIVE Occurrences(_, _)
Occurrences(seq, id) ==
    IF seq = <<>> THEN 0
    ELSE (IF Head(seq) = id THEN 1 ELSE 0) + Occurrences(Tail(seq), id)

\* C8: when a run completes, every record that was pending at its start
\* has been processed exactly once and its id is in processedIds.  Stated
\* for runs during which the batch size is the one the service was built with.
C8_EveryPendingOnce ==
    (pc = "then" /\ batchSize = OrDefault(options.batchSize, DefaultBatchSize))
        => \A id \in hist.run.pendingAtStart :
               /\ id \in processedIds
               /\ Occurrences(hist.run.submitted, id) = 1

\* C9: after a first run over the five records of the scenario, cache
\* enabled and empty, provider resolving every address, there were 4
\* lookups and 1 cache hit, and the report gives 100.0 and cacheHits 1
C9_Scenario ==
    (/\ pc = "idle" /\ proc = "up"
     /\ progressoAtual.status = "concluido"
     /\ hist.runs = 1 /\ hist.events = 0
     /\ cacheEnabled
     /\ Len(storeFile) = Len(Scenario)
     /\ Faulty = 0)
        => /\ hist.run.requests = 4
           /\ stats.cached = 1
           /\ SubSeq(gerarRelatorioDetalhado(storeFile).taxaSucesso, 1, 5)
                  = <<"1", "0", "0", ".", "0">>
           /\ gerarRelatorioDetalhado(storeFile).cacheHits = 1

\* C10: when the process exits on SIGINT with a run active that has
\* processed records, no record is in flight, and the files hold the
\* checkpoint of the run, the cache and every record as mutated so far
C10_CooperativeCancellation ==
    [][(sigint # <<>> /\ proc' = "down" /\ stats.processed > 0)
           => /\ pc \notin {"request", "retryWait"}
              /\ progressFile' # <<>>
              /\ progressFile'[1].processedIds = processedIds
              /\ cacheFile' = saveCache(memoryCache, cacheFile)
              /\ storeFile' = clientes]_vars

\* C11: no record makes the run abort: a first run with no outside event
\* ends normally, with every record marked, whatever its records are
C11_RecordFailuresNeverAbort ==
    /\ (hist.runs = 1 /\ hist.events = 0) => pc # "catch"
    /\ (hist.runs = 1 /\ hist.events = 0 /\ pc = "then")
           => \A i \in 1..Len(clientes) : Marcado(clientes[i])

\* requests of the configuration route on both sides of every limit
\* (0: field not sent)
CfgProbe ==
    {[rateLimitDelay |-> d, batchSize |-> 0, maxRetries |-> 0] :
        d \in {0, 0 - 1, CfgMinDelay - 1, CfgMinDelay, 3500}}
    \cup {[rateLimitDelay |-> 0, batchSize |-> b, maxRetries |-> 0] :
        b \in {0 - 1, CfgMinBatch - 1, CfgMinBatch, CfgMaxBatch, CfgMaxBatch + 1}}
    \cup {[rateLimitDelay |-> 0, batchSize |-> 0, maxRetries |-> m] :
        m \in {0 - 1, CfgMinRetries, CfgMaxRetries, CfgMaxRetries + 1}}
    \cup [rateLimitDelay : {CfgMinDelay - 1, CfgMinDelay},
          batchSize : {CfgMinBatch, CfgMaxBatch + 1},
          maxRetries : {CfgMaxRetries, CfgMaxRetries + 1}]

\* what the claim says a request makes of one setting with limits lo..hi
\* (the delay has no upper limit)
Aplicado(cur, v, lo, hi) == IF v >= lo /\ v <= hi THEN v ELSE cur

\* C12: a configuration request leaves a setting unchanged, on the reported
\* configuration and on the service, when its value is below 500 (delay),
\* outside 10..1000 (batch size) or outside 1..10 (retries), and sets both
\* to the value otherwise; so batch size and retries of the two always agree
C12_ConfigRejected ==
    proc = "up" =>
        /\ \A req \in CfgProbe :
             /\ Configurado(geocodingConfig, req).rateLimitDelay =
                    Aplicado(geocodingConfig.rateLimitDelay, req.rateLimitDelay,
                             CfgMinDelay, req.rateLimitDelay)
             /\ Configurado(Servico, req).rateLimitDelay =
                    Aplicado(rateLimitDelay, req.rateLimitDelay,
                             CfgMinDelay, req.rateLimitDelay)
             /\ Configurado(geocodingConfig, req).batchSize =
                    Aplicado(geocodingConfig.batchSize, req.batchSize,
                             CfgMinBatch, CfgMaxBatch)
             /\ Configurado(Servico, req).batchSize =
                    Aplicado(batchSize, req.batchSize, CfgMinBatch, CfgMaxBatch)
             /\ Configurado(geocodingConfig, req).maxRetries =
                    Aplicado(geocodingConfig.maxRetries, req.maxRetries,
                             CfgMinRetries, CfgMaxRetries)
             /\ Configurado(Servico, req).maxRetries =
                    Aplicado(maxRetries, req.maxRetries,
                             CfgMinRetries, CfgMaxRetries)
        /\ batchSize = OrDefault(geocodingConfig.batchSize, DefaultBatchSize)
        /\ maxRetries = OrDefault(geocodingConfig.maxRetries, DefaultMaxRetries)
        /\ batchSize \in {OrDefault(options.batchSize, DefaultBatchSize)}
                             \cup (CfgMinBatch..CfgMaxBatch)
        /\ maxRetries \in {OrDefault(options.maxRetries, DefaultMaxRetries)}
                              \cup (CfgMinRetries..CfgMaxRetries)

\* an accepted batch size is in force on both while a lookup is in flight
C12_Witness ==
    /\ pc = "request"
    /\ options.batchSize = 2
    /\ batchSize = CfgMinBatch
    /\ geocodingConfig.batchSize = CfgMinBatch

\* C13: the time the run has slept between one external request and the
\* next is at least 1000 ms, under any accepted configuration
C13_RateCeiling == hist.run.waited >= RateCeiling

\* every entry of memoryCache is kept, with its value, by the step
CacheKept ==
    \A k \in DOMAIN memoryCache :
        k \in DOMAIN memoryCache' /\ memoryCache'[k] = memoryCache[k]

\* C14 as stated: while the process lives no step removes or changes an
\* entry of memoryCache
C14_CacheAppendOnly ==
    [][(proc = "up" /\ proc' = "up") => CacheKept]_vars

\* C14: while the process lives the only step that removes or changes an
\* entry of memoryCache is a limparCache that finds both files, which removes
\* them and empties the map; every other step keeps every entry
C14_AppendOnlyUntilCleared ==
    [][(proc = "up" /\ proc' = "up")
           => \/ CacheKept
              \/ /\ Presente(cacheFile) /\ Presente(progressFile)
                 /\ cacheFile' = <<>> /\ progressFile' = <<>>
                 /\ memoryCache' = EmptyCache]_vars

\* the map was emptied in the middle of a run that had stored results
C14_Witness ==
    /\ proc = "up" /\ cacheEnabled
    /\ hist.exit = "none" /\ hist.runs = 1
    /\ pc = "request"
    /\ stats.success > 1
    /\ memoryCache = EmptyCache

\* the words of an address: its maximal runs of non-whitespace characters
RECURSIVE Words(_)
Words(s) ==
    IF s = <<>> THEN <<>>
    ELSE IF isSpace(Head(s)) THEN Words(Tail(s))
    ELSE LET ends == {n \in 1..Len(s) : n = Len(s) \/ isSpace(s[n + 1])}
             n == CHOOSE m \in ends : \A k \in ends : m <= k
         IN  <<SubSeq(s, 1, n)>> \o Words(SubSeq(s, n + 1, Len(s)))

SameIgnoringCase(u, v) ==
    /\ Len(u) = Len(v)
    /\ \A i \in 1..Len(u) : toLowerChar(u[i]) = toLowerChar(v[i])

\* two addresses differ only in letter case, in whitespace at the ends and
\* in the length of their internal whitespace runs
DifferOnlyInCaseOrSpace(a, b) ==
    /\ Len(Words(a)) = Len(Words(b))
    /\ \A i \in 1..Len(Words(a)) : SameIgnoringCase(Words(a)[i], Words(b)[i])

\* C15: getCacheKey is idempotent, and two addresses that differ only in
\* letter case or whitespace have the same key: the record whose address
\* differs so from the cached one is answered from the cache
C15_NormalizedKey ==
    \A i \in 1..Len(storeFile) : \A j \in 1..Len(storeFile) :
        LET a == storeFile[i].endereco
            b == storeFile[j].endereco
        IN  /\ getCacheKey(getCacheKey(a)) = getCacheKey(a)
            /\ DifferOnlyInCaseOrSpace(a, b) => getCacheKey(a) = getCacheKey(b)
            /\ (DifferOnlyInCaseOrSpace(a, b) /\ i = 1 /\ j = 2 /\ pc = "request")
                   => pos > 1

C15_Witness ==
    /\ storeFile[1].endereco = <<"\t", "A", " ", "a">>
    /\ storeFile[2].endereco = <<"A", " ", "a">>
    /\ pc = "saveProgress"
    /\ stats.cached = 2

Contagens(r) ==
    <<r.resumo.total, r.resumo.geocodificados, r.resumo.naoGeocodificados,
      r.resumo.cacheHits>>

\* C16: a report changes neither the records nor the stats nor the cache,
\* its counts of resolved and failed records add up to the total, and two
\* reports over the same records have the same counts whatever the state
\* of the service
C16_ReportPure ==
    [][hist'.relatorio # hist.relatorio
          => /\ UNCHANGED <<disk, provider, options, proc, config, memoryCache,
                            stats, server, run, saveQueue, sigint>>
             /\ \A i \in 1..Len(hist'.relatorio) :
                  LET r == hist'.relatorio[i]
                  IN  /\ r.resumo.geocodificados + r.resumo.naoGeocodificados
                            = r.resumo.total
                      /\ \A j \in 1..Len(hist'.relatorio) :
                            r.clientes = hist'.relatorio[j].clientes
                                => Contagens(r) = Contagens(hist'.relatorio[j])]_vars

C16_Witness ==
    /\ Len(hist.relatorio) = 2
    /\ hist.relatorio[1].clientes = hist.relatorio[2].clientes
    /\ hist.relatorio[1].estatisticas.processed = 0
    /\ hist.relatorio[2].estatisticas.processed > 0
    /\ hist.relatorio[2].resumo.geocodificados > 0
    /\ hist.relatorio[2].resumo.naoGeocodificados > 0
    /\ pc = "next"

\* C17: the collection processarClientesOtimizado works on and returns has
\* the length, the order and the ids of the collection it was given (the
\* records read from the record file)
C17_RecordsInPlace ==
    (proc = "up" /\ pc \notin {"idle", "catch"})
        => /\ Len(clientes) = Len(storeFile)
           /\ \A i \in 1..Len(clientes) : clientes[i].id = storeFile[i].id

C17_Witness ==
    /\ pc = "then"
    /\ Len(clientes) = Len(Scenario)
    /\ stats.processed = Len(Scenario)
    /\ stats.errors = 1
    /\ \E i \in 1..Len(clientes) : Marcado(clientes[i]) /\ ~Resolvido(clientes[i])

\* C18: when the first run of a process that nothing disturbs returns, the
\* records whose cached flag is set are as many as the cache hits the run
\* counted, and so is the cacheHits of the report over them
C18_CacheHitsTagged ==
    (pc = "then" /\ hist.runs = 1 /\ hist.events = 0)
        => /\ Cardinality({i \in 1..Len(clientes) : clientes[i].cached})
                  = stats.cached
           /\ gerarRelatorioDetalhado(clientes).cacheHits = stats.cached

\* C19: a lookup the provider answers with no candidate ends with that
\* request, the only one it made: it returns null, counts one error and
\* neither waits to retry nor requests again
C19_EmptyIsTerminal ==
    hist.run.lk.outcome = "empty"
        => /\ hist.run.lk.reqs = 1
           /\ hist.run.lk.errors = 1
           /\ hist.run.lk.nulo
           /\ pc \notin {"request", "retryWait"}

C19_Witness ==
    /\ hist.run.lk.outcome = "empty"
    /\ maxRetries >= 2
    /\ pc = "next"
    /\ stats.errors = 1
    /\ \E i \in 1..Len(clientes) : Marcado(clientes[i]) /\ ~Resolvido(clientes[i])

\* C20: every value of memoryCache is the resolution of an address with its
\* key, with coordinates; a lookup that returns null leaves the map as it
\* was; with the cache disabled the map stays empty and no record is
\* answered from it, whatever the cache file holds
C20_CacheNeverStoresFailures ==
    [][/\ \A k \in DOMAIN memoryCache' :
            /\ memoryCache'[k].latitude # 0
            /\ memoryCache'[k].longitude # 0
            /\ \E a \in Enderecos : /\ getCacheKey(a) = k
                                    /\ memoryCache'[k] = Resultado(a)
                                    /\ provider'[a] \in {"found", "late"}
       /\ (hist'.run.lk.nulo /\ ~hist.run.lk.nulo) => memoryCache' = memoryCache
       /\ ~cacheEnabled => /\ memoryCache' = EmptyCache
                           /\ stats'.cached = 0]_vars

C20_Witness ==
    /\ cacheEnabled
    /\ hist.run.lk.nulo
    /\ pc = "then"
    /\ stats.errors = 1
    /\ DOMAIN memoryCache # {}
    /\ \E i \in 1..Len(clientes) :
          /\ Marcado(clientes[i]) /\ ~Resolvido(clientes[i])
          /\ getCacheKey(clientes[i].endereco) \notin DOMAIN memoryCache

\* C21: within one run a record changes only once, from not yet processed
\* to marked (resolved or failed); only records that were pending when the
\* run started are submitted, none twice, and a record that was resolved
\* then is not changed in any field
C21_StatusWrittenOnce ==
    [][/\ NoRepetition(hist'.run.submitted)
       /\ \A j \in 1..Len(hist'.run.submitted) :
              hist'.run.submitted[j] \in hist'.run.pendingAtStart
       /\ (proc = "up" /\ proc' = "up" /\ pc \notin {"idle", "load"}
           /\ Len(clientes') = Len(clientes))
              => \A i \in 1..Len(clientes) :
                    clientes'[i] # clientes[i]
                        => /\ ~Resolvido(clientes[i])
                           /\ clientes[i].id \in hist.run.pendingAtStart
                           /\ clientes[i].id \notin processedIds
                           /\ clientes[i].id \in processedIds'
                           /\ Marcado(clientes'[i])
                           /\ clientes'[i].id = clientes[i].id]_vars

C21_Witness ==
    /\ pc = "then"
    /\ hist.runs = 2
    /\ Len(hist.run.submitted) = 1
    /\ \E i \in 1..Len(clientes) :
          /\ Resolvido(clientes[i])
          /\ clientes[i].id \notin hist.run.pendingAtStart
    /\ \E i \in 1..Len(clientes) :
          /\ clientes[i].id \in hist.run.pendingAtStart
          /\ Marcado(clientes[i])

\* the ids in a sequence of ids
Ids(seq) == {seq[j] : j \in 1..Len(seq)}

\* C22: the checkpoint file is written only by saveProgress after the last
\* record of a batch; what is written holds the ids loaded at resume and
\* those processed so far in the run, and the index of the batch plus one;
\* a batch is left only after its checkpoint was written, once
C22_CheckpointAtBatchBoundary ==
    [][(proc = "up" /\ proc' = "up")
          => /\ (progressFile' # progressFile /\ Presente(progressFile'))
                   => /\ pc = "saveProgress"
                      /\ pos > Len(lote)
                      /\ \A j \in 1..Len(lote) : Marcado(clientes[lote[j]])
                      /\ progressFile'[1].processedIds
                             = hist.run.ckptIds \cup Ids(hist.run.submitted)
                      /\ progressFile'[1].currentBatch = batchIndex + 1
                      /\ Len(hist'.run.saved) = Len(hist.run.saved) + 1
             /\ (pc = "saveProgress" /\ pc' # pc)
                   => /\ pc' = "saveCache"
                      /\ Presente(progressFile')
                      /\ Len(hist'.run.saved) = Len(hist.run.saved) + 1
             /\ (pc \notin {"idle", "load"} /\ batchIndex' # batchIndex
                 /\ pc' \notin {"idle", "load"})
                   => /\ batchIndex' = batchIndex + 1
                      /\ hist.run.saved # <<>>
                      /\ hist.run.saved[Len(hist.run.saved)].currentBatch
                             = batchIndex'
                      /\ \A k \in 1..(Len(hist.run.saved) - 1) :
                             hist.run.saved[k + 1].currentBatch
                                 = hist.run.saved[k].currentBatch + 1]_vars

C22_Witness ==
    /\ pc = "saveCache"
    /\ Len(hist.run.saved) = 1
    /\ hist.run.ckptIds # {}
    /\ Presente(progressFile)
    /\ progressFile[1].currentBatch = batchIndex + 1
    /\ Cardinality(progressFile[1].processedIds) > Cardinality(hist.run.ckptIds)

\* C23: when the call of processarClientesOtimizado has rejected and the
\* server has handled it, the status is 'erro', the flag is down, and the
\* cache file and the checkpoint file hold the cache and the processed ids
\* the run had at that moment
C23_RunFailureFlushes ==
    [][(proc = "up" /\ proc' = "up" /\ pc = "catch" /\ pc' = "idle")
          => /\ progressoAtual'.status = "erro"
             /\ ~processamentoAtivo'
             /\ cacheFile' = saveCache(memoryCache, cacheFile)
             /\ processedIds # {}
                   => /\ Presente(progressFile')
                      /\ progressFile'[1].processedIds = processedIds]_vars

\* a step of the run from one of its reads or writes of the two files
Continues ==
    /\ pc \in {"load", "saveProgress", "saveCache", "finish"} /\ pc' # pc
    /\ proc = "up" /\ proc' = "up"

\* whether they fail or not, the reads and writes of the cache file and of
\* the checkpoint file let the run go on with the records, the processed
\* ids and the cache it has in memory; a first run ends with every record
\* marked as a run without failures marks it
NonFatal ==
    /\ Continues
          => /\ pc' \in {"next", "saveCache", "pause", "finish", "then"}
             /\ clientes' = clientes
             /\ pc # "load" => /\ processedIds' = processedIds
                               /\ memoryCache' = memoryCache
    /\ (pc = "then" /\ hist.runs = 1)
          => \A i \in 1..Len(clientes) :
                 /\ Marcado(clientes[i])
                 /\ Resolvido(clientes[i]) = UninterruptedResolved(clientes, i)

PosPendente(id) ==
    CHOOSE n \in 1..Len(clientesPendentes) : clientes[clientesPendentes[n]].id = id

\* C25: the records a run processes follow the order of its pending list;
\* every record processed is one progress event and every event one record
\* processed; the events count 1, 2, 3, ... and never beyond the total
C25_ProgressInOrder ==
    [][(proc = "up" /\ proc' = "up" /\ pc \in {"next", "request"}
        /\ pc' \notin {"idle", "catch"})
          => /\ \A j \in 1..Len(hist'.run.submitted) :
                  \A k \in (j + 1)..Len(hist'.run.submitted) :
                      PosPendente(hist'.run.submitted[j])
                          < PosPendente(hist'.run.submitted[k])
             /\ (processedIds' # processedIds) = (progressoAtual' # progressoAtual)
             /\ processedIds' # processedIds
                   => /\ Cardinality(processedIds' \ processedIds) = 1
                      /\ progressoAtual'.processados
                             = progressoAtual.processados + 1
                      /\ progressoAtual'.processados = Len(hist'.run.submitted)
                      /\ progressoAtual'.total = Len(clientes)
                      /\ progressoAtual'.processados <= progressoAtual'.total]_vars

C25_Witness ==
    /\ pc = "then"
    /\ progressoAtual.processados = Len(Scenario)
    /\ hist.run.submitted = <<1, 2, 3, 4, 5>>
    /\ batchSize = 2
    /\ stats.cached = 1

\* C26: whatever delay the service has, one call of ajustarRateLimit does
\* not lower it when errors / processed > 0.1, does not raise it when
\* errors / processed < 0.02, and keeps it when the rate is within
\* [0.02, 0.1] or when it is low and the delay is at the floor
C26_GovernorDirection ==
    \A st \in GovStats :
        LET depois == ajustarRateLimit(rateLimitDelay, st)
        IN  /\ 10 * st.errors > st.processed => depois >= rateLimitDelay
            /\ 50 * st.errors < st.processed => depois <= rateLimitDelay
            /\ (50 * st.errors >= st.processed /\ 10 * st.errors <= st.processed)
                  => depois = rateLimitDelay
            /\ (50 * st.errors < st.processed /\ rateLimitDelay = GovMinDelay)
                  => depois = rateLimitDelay

\* the delay the service was constructed with
Construido == OrDefault(options.rateLimitDelay, DefaultRateLimitDelay)

\* C27: in a first run started on either route the delay is the constructed
\* one as long as fewer than 50 records have been processed, and once the
\* 50th has been processed and its progress event handled the delay is the
\* one ajustarRateLimit gives under the counters of the run
C27_GovernorPeriodic ==
    (hist.runs = 1 /\ pc # "idle")
        => /\ stats.processed < AdjustEvery => rateLimitDelay = Construido
           /\ (stats.processed = AdjustEvery /\ saveQueue = <<>>)
                 => rateLimitDelay = ajustarRateLimit(Construido, stats)

\* C28: the step that starts a run sets processed, success, errors and
\* cached to 0 and total to the number of records given; no later step of
\* the run lowers one of them or changes total
C28_RunStats ==
    [][(proc = "up" /\ proc' = "up" /\ pc' # "idle")
          => IF pc = "idle"
             THEN /\ stats'.processed = 0 /\ stats'.success = 0
                  /\ stats'.errors = 0 /\ stats'.cached = 0
                  /\ stats'.total = Len(clientes')
             ELSE /\ stats'.processed >= stats.processed
                  /\ stats'.success >= stats.success
                  /\ stats'.errors >= stats.errors
                  /\ stats'.cached >= stats.cached
                  /\ stats'.total = stats.total]_vars

C28_Witness ==
    /\ hist.runs = 2
    /\ hist.exit = "none"
    /\ pc = "request"
    /\ stats.processed = 0
    /\ stats.errors = 0
    /\ stats.total = Len(Scenario)
    /\ Presente(progressFile)
    /\ progressFile[1].stats.errors = 1
    /\ progressFile[1].stats.processed = Len(Scenario)

\* C29: while a run is active, a step that is not a step of the run (a
\* request to clear the cache, a stop signal, a configuration update)
\* leaves the cache in memory, the cache file and the checkpoint file as
\* they are
C29_ExclusiveOwnership ==
    [][(/\ proc = "up" /\ processamentoAtivo
        /\ \/ proc' = "down"
           \/ pc' = pc /\ stats' = stats /\ pos' = pos /\ tentativa' = tentativa)
          => /\ proc' = "up" => memoryCache' = memoryCache
             /\ cacheFile' = cacheFile
             /\ progressFile' = progressFile]_vars

\* C30: after a request to clear the cache has been served, whichever of
\* the two files existed, the cache in memory is empty and neither the
\* cache file nor the checkpoint file exists
C30_ClearPostcondition ==
    [][(/\ proc = "up" /\ proc' = "up"
        /\ hist'.events = hist.events + 1
        /\ config' = config /\ sigint' = sigint)
          => /\ memoryCache' = EmptyCache
             /\ cacheFile' = <<>>
             /\ progressFile' = <<>>]_vars

\* C31: with the cache enabled, a run loads the cache file as it was
\* flushed: every key of the file is in the map with the resolution of the
\* file, and in a new process the map is the file; afterwards no lookup is
\* requested for a record whose key is in the file
C31_CachePersists ==
    [][(proc' = "up" /\ cacheEnabled /\ Presente(cacheFile'))
          => /\ (pc = "load" /\ pc' # "load" /\ pc' # "idle")
                   => /\ \A k \in DOMAIN cacheFile[1] :
                             /\ k \in DOMAIN memoryCache'
                             /\ memoryCache'[k] = cacheFile[1][k]
                      /\ memoryCache = EmptyCache => memoryCache' = cacheFile[1]
             /\ pc' \in {"request", "retryWait"}
                   => getCacheKey(clientes'[lote'[pos']].endereco)
                          \notin DOMAIN cacheFile'[1]]_vars

C31_Witness ==
    /\ hist.exit = "kill"
    /\ hist.runs = 2
    /\ pc = "then"
    /\ cacheEnabled
    /\ Presente(cacheFile)
    /\ stats.cached = 1
    /\ stats.processed = 1
    /\ stats.success = 0

\* C32: during a run processedIds holds only ids of the records the run
\* was given, and once a run with resume has loaded the checkpoint it
\* holds every id the checkpoint file held
C32_ProcessedIdsInvariant ==
    (proc = "up" /\ pc \notin {"idle", "load"})
        => /\ processedIds \subseteq {clientes[i].id : i \in 1..Len(clientes)}
           /\ args.resumir => hist.run.ckptIds \subseteq processedIds

\* C33: no more than one run, and so one request, is in flight, and every
\* request after the first of a run is issued after a wait: retryDelay
\* before a retry, the delay slept after a processed record otherwise
C33_NoFanOut ==
    /\ hist.activeRuns <= 1
    /\ (proc = "up" /\ pc = "request")
          => /\ hist.run.waited > 0
             /\ tentativa > 1 => hist.run.waited >= Min(RetryDelay, RateCeiling)
             /\ hist.run.lk.outcome = "pending"

C33_Witness ==
    /\ proc = "up" /\ pc = "request" /\ tentativa = 1
    /\ hist.run.requests > 0 /\ stats.processed > 0
    /\ hist.run.waited > 0
    /\ hist.run.waited < RateCeiling

\* the records the current run has processed and marked resolved
MarcadosPeloRun ==
    {i \in 1..Len(clientes) :
        /\ clientes[i].id \in processedIds \ hist.run.ckptIds
        /\ clientes[i].geocoded}

\* C34: throughout a run and at its end every processed record is counted
\* in exactly one of success, errors and cached, whatever the number of
\* attempts, and success + cached is the number of records the run has
\* marked resolved
C34_StatsAccounting ==
    (proc = "up" /\ pc \notin {"idle", "load"})
        => /\ stats.processed = stats.success + stats.errors + stats.cached
           /\ stats.success + stats.cached = Cardinality(MarcadosPeloRun)
           /\ stats.processed = Cardinality(processedIds \ hist.run.ckptIds)

C34_Witness ==
    /\ proc = "up" /\ pc = "then"
    /\ stats.success > 0 /\ stats.errors > 0 /\ stats.cached > 0
    /\ hist.run.requests > stats.success + stats.errors
    /\ stats.processed = stats.total

\* C35: a run started without resume during which PUT /api/configuracao
\* changed the batch size ends with every record that was pending at its
\* start processed exactly once
C35_BatchSizeUpdate ==
    (proc = "up" /\ pc = "then" /\ ~args.resumir /\ hist.run.resized)
        => \A id \in hist.run.pendingAtStart :
               /\ id \in processedIds
               /\ Occurrences(hist.run.submitted, id) = 1

\* the same for the runs during which the batch size did not change
C35_SemAtualizacao ==
    (proc = "up" /\ pc = "then" /\ ~args.resumir /\ ~hist.run.resized)
        => \A id \in hist.run.pendingAtStart :
               /\ id \in processedIds
               /\ Occurrences(hist.run.submitted, id) = 1

\* C36: the configuration the progress and status routes return is the one
\* the service uses: geocodingConfig's rateLimitDelay, batchSize and
\* maxRetries equal the service's, also after the governor has adjusted
\* the delay
C36_ConfigMatches ==
    proc = "up"
        => /\ geocodingConfig.rateLimitDelay = rateLimitDelay
           /\ geocodingConfig.batchSize = batchSize
           /\ geocodingConfig.maxRetries = maxRetries

\* C37: in a process that is not stopped and whose provider answers or
\* fails every request, a started run ends: the flag raised at its start is
\* eventually cleared, after a normal end and after an error alike, and a
\* start request is accepted again; meanwhile a lookup whose maxRetries was
\* not changed is at no attempt beyond maxRetries and the loop at no batch
\* beyond totalBatches
C37_RunTerminates ==
    /\ processamentoAtivo ~> (proc = "up" /\ pc = "idle" /\ StartAccepted)
    /\ []((pc \in {"request", "retryWait"} /\ hist.run.lk.stable)
              => tentativa <= maxRetries)
    /\ [][(pc \notin {"idle", "load"} /\ pc' # "idle")
              => \/ batchIndex' = batchIndex
                 \/ batchIndex' = batchIndex + 1 /\ batchIndex' <= totalBatches]_vars

C37_Witness ==
    /\ proc = "up" /\ pc = "load" /\ processamentoAtivo
    /\ hist.runs = 2
    /\ Len(storeFile) = Len(Incompleto)
    /\ \E i \in 1..Len(storeFile) : storeFile[i].data_geocodificacao

====
